---- MODULE Spec2Model ----
(***************************************************************************)
(* A model of wordle-solver (src/src/main.rs): the three-pass predicate    *)
(* matches_pattern and the interactive session that filters the loaded     *)
(* dictionary with it.                                                     *)
(*                                                                         *)
(* A Rust char is a one-character string; a word, a guess and a pattern    *)
(* (Vec<char>) are sequences of them.  Sequences are indexed from 1 where  *)
(* the source indexes from 0.                                              *)
(***************************************************************************)
EXTENDS Integers, Sequences, FiniteSets, TLC

(***************************************************************************)
(* Bounds of the model.                                                    *)
(***************************************************************************)
\* Length of word, guess and pattern in the equal-length evaluations.
WordLen == 3
\* Largest length of word, guess and pattern where the lengths vary freely.
MaxLen == 3
\* Length of word, guess and pattern where the pattern holds any symbol.
SymLen == 2
\* Largest number of observations entered since the last 'new'.
MaxObs == 2

\* The alphabets the inputs are drawn from.
Letters == {"a", "b", "c"}
LettersShort == {"a", "b"}
LettersCased == {"a", "A", "b"}
Symbols == {"g", "y", "b"}
SymbolsAny == {"g", "y", "b", "G", "Y", "B", "x"}

SeqsOfLen(S, n) == [1..n -> S]

SeqsUpTo(S, n) == UNION {SeqsOfLen(S, k) : k \in 0..n}

(***************************************************************************)
(* char::eq_ignore_ascii_case: both sides are lowered (ASCII letters only) *)
(* and then compared.                                                      *)
(***************************************************************************)
AsciiUpper ==
    <<"A", "B", "C", "D", "E", "F", "G", "H", "I", "J", "K", "L", "M",
      "N", "O", "P", "Q", "R", "S", "T", "U", "V", "W", "X", "Y", "Z">>

AsciiLower ==
    <<"a", "b", "c", "d", "e", "f", "g", "h", "i", "j", "k", "l", "m",
      "n", "o", "p", "q", "r", "s", "t", "u", "v", "w", "x", "y", "z">>

LowerOf ==
    [c \in {AsciiUpper[k] : k \in 1..Len(AsciiUpper)} |->
        AsciiLower[CHOOSE k \in 1..Len(AsciiUpper) : AsciiUpper[k] = c]]

UpperOf ==
    [c \in {AsciiLower[k] : k \in 1..Len(AsciiLower)} |->
        AsciiUpper[CHOOSE k \in 1..Len(AsciiLower) : AsciiLower[k] = c]]

to_ascii_lowercase(c) == IF c \in DOMAIN LowerOf THEN LowerOf[c] ELSE c

to_ascii_uppercase(c) == IF c \in DOMAIN UpperOf THEN UpperOf[c] ELSE c

eq_ignore_ascii_case(x, y) == to_ascii_lowercase(x) = to_ascii_lowercase(y)

(***************************************************************************)
(* The outcome of a pass: it returned ret with the usage marks used, or    *)
(* it panicked on an index out of bounds (a slice index in Rust is         *)
(* checked).                                                               *)
(***************************************************************************)
Returned(r, used) == [panic |-> FALSE, ret |-> r, used |-> used]

Panicked(used) == [panic |-> TRUE, ret |-> FALSE, used |-> used]

(***************************************************************************)
(* check_greens: the loop over i, from index i on.                         *)
(***************************************************************************)
RECURSIVE greens_from(_, _, _, _, _)
greens_from(word_chars, guess_chars, pattern_chars, used_in_word, i) ==
    IF i > Len(word_chars) THEN Returned(TRUE, used_in_word)
    ELSE IF i > Len(pattern_chars) THEN Panicked(used_in_word)
    ELSE IF eq_ignore_ascii_case(pattern_chars[i], "g") THEN
        IF i > Len(guess_chars) THEN Panicked(used_in_word)
        ELSE IF word_chars[i] # guess_chars[i] THEN Returned(FALSE, used_in_word)
        ELSE IF i > Len(used_in_word) THEN Panicked(used_in_word)
        ELSE greens_from(word_chars, guess_chars, pattern_chars,
                         [used_in_word EXCEPT ![i] = TRUE], i + 1)
    ELSE greens_from(word_chars, guess_chars, pattern_chars, used_in_word, i + 1)

RECURSIVE greens_nocase_from(_, _, _, _, _)
greens_nocase_from(word_chars, guess_chars, pattern_chars, used_in_word, i) ==
    IF i > Len(word_chars) THEN Returned(TRUE, used_in_word)
    ELSE IF i > Len(pattern_chars) THEN Panicked(used_in_word)
    ELSE IF eq_ignore_ascii_case(pattern_chars[i], "g") THEN
        IF i > Len(guess_chars) THEN Panicked(used_in_word)
        ELSE IF ~eq_ignore_ascii_case(word_chars[i], guess_chars[i])
            THEN Returned(FALSE, used_in_word)
        ELSE IF i > Len(used_in_word) THEN Panicked(used_in_word)
        ELSE greens_nocase_from(word_chars, guess_chars, pattern_chars,
                                [used_in_word EXCEPT ![i] = TRUE], i + 1)
    ELSE greens_nocase_from(word_chars, guess_chars, pattern_chars, used_in_word, i + 1)

\* check_greens comparing the letters without regard to case.
check_greens_nocase(word_chars, guess_chars, pattern_chars, used_in_word) ==
    greens_nocase_from(word_chars, guess_chars, pattern_chars, used_in_word, 1)

check_greens(word_chars, guess_chars, pattern_chars, used_in_word) ==
    greens_from(word_chars, guess_chars, pattern_chars, used_in_word, 1)

(***************************************************************************)
(* check_yellows.  yellow_find is the inner loop over j: the first unused  *)
(* position j # i of the word that holds guess_i, 0 when there is none     *)
(* ("found" stays false), -1 when the loop indexes the usage marks out of  *)
(* bounds.                                                                 *)
(***************************************************************************)
RECURSIVE yellow_find(_, _, _, _, _)
yellow_find(word_chars, guess_i, used_in_word, i, j) ==
    IF j > Len(word_chars) THEN 0
    ELSE IF j > Len(used_in_word) THEN -1
    ELSE IF ~used_in_word[j] /\ word_chars[j] = guess_i /\ j # i THEN j
    ELSE yellow_find(word_chars, guess_i, used_in_word, i, j + 1)

RECURSIVE yellows_from(_, _, _, _, _)
yellows_from(word_chars, guess_chars, pattern_chars, used_in_word, i) ==
    IF i > Len(word_chars) THEN Returned(TRUE, used_in_word)
    ELSE IF i > Len(pattern_chars) THEN Panicked(used_in_word)
    ELSE IF eq_ignore_ascii_case(pattern_chars[i], "y") THEN
        IF i > Len(guess_chars) THEN Panicked(used_in_word)
        ELSE IF word_chars[i] = guess_chars[i] THEN Returned(FALSE, used_in_word)
        ELSE LET j == yellow_find(word_chars, guess_chars[i], used_in_word, i, 1)
             IN  IF j = -1 THEN Panicked(used_in_word)
                 ELSE IF j = 0 THEN Returned(FALSE, used_in_word)
                 ELSE yellows_from(word_chars, guess_chars, pattern_chars,
                                   [used_in_word EXCEPT ![j] = TRUE], i + 1)
    ELSE yellows_from(word_chars, guess_chars, pattern_chars, used_in_word, i + 1)

\* The Yellow pass that finds an occurrence but does not mark it used.
RECURSIVE yellows_nomark_from(_, _, _, _, _)
yellows_nomark_from(word_chars, guess_chars, pattern_chars, used_in_word, i) ==
    IF i > Len(word_chars) THEN Returned(TRUE, used_in_word)
    ELSE IF i > Len(pattern_chars) THEN Panicked(used_in_word)
    ELSE IF eq_ignore_ascii_case(pattern_chars[i], "y") THEN
        IF i > Len(guess_chars) THEN Panicked(used_in_word)
        ELSE IF word_chars[i] = guess_chars[i] THEN Returned(FALSE, used_in_word)
        ELSE LET j == yellow_find(word_chars, guess_chars[i], used_in_word, i, 1)
             IN  IF j = -1 THEN Panicked(used_in_word)
                 ELSE IF j = 0 THEN Returned(FALSE, used_in_word)
                 ELSE yellows_nomark_from(word_chars, guess_chars, pattern_chars,
                                          used_in_word, i + 1)
    ELSE yellows_nomark_from(word_chars, guess_chars, pattern_chars, used_in_word, i + 1)

check_yellows_nomark(word_chars, guess_chars, pattern_chars, used_in_word) ==
    yellows_nomark_from(word_chars, guess_chars, pattern_chars, used_in_word, 1)

\* The Yellow pass without the rejection of word_chars[i] == guess_chars[i].
RECURSIVE yellows_noeq_from(_, _, _, _, _)
yellows_noeq_from(word_chars, guess_chars, pattern_chars, used_in_word, i) ==
    IF i > Len(word_chars) THEN Returned(TRUE, used_in_word)
    ELSE IF i > Len(pattern_chars) THEN Panicked(used_in_word)
    ELSE IF eq_ignore_ascii_case(pattern_chars[i], "y") THEN
        IF i > Len(guess_chars) THEN Panicked(used_in_word)
        ELSE LET j == yellow_find(word_chars, guess_chars[i], used_in_word, i, 1)
             IN  IF j = -1 THEN Panicked(used_in_word)
                 ELSE IF j = 0 THEN Returned(FALSE, used_in_word)
                 ELSE yellows_noeq_from(word_chars, guess_chars, pattern_chars,
                                        [used_in_word EXCEPT ![j] = TRUE], i + 1)
    ELSE yellows_noeq_from(word_chars, guess_chars, pattern_chars, used_in_word, i + 1)

check_yellows_noeq(word_chars, guess_chars, pattern_chars, used_in_word) ==
    yellows_noeq_from(word_chars, guess_chars, pattern_chars, used_in_word, 1)

check_yellows(word_chars, guess_chars, pattern_chars, used_in_word) ==
    yellows_from(word_chars, guess_chars, pattern_chars, used_in_word, 1)

(***************************************************************************)
(* check_blacks.  black_hit is the inner loop over j: "hit" when an unused *)
(* position of the word holds guess_chars[i], "clear" when none does,      *)
(* "panic" when the loop indexes the usage marks or the guess out of       *)
(* bounds (the guess is read only at an unused position: && is lazy).      *)
(***************************************************************************)
RECURSIVE black_hit(_, _, _, _, _)
black_hit(word_chars, guess_chars, used_in_word, i, j) ==
    IF j > Len(word_chars) THEN "clear"
    ELSE IF j > Len(used_in_word) THEN "panic"
    ELSE IF ~used_in_word[j] THEN
        IF i > Len(guess_chars) THEN "panic"
        ELSE IF word_chars[j] = guess_chars[i] THEN "hit"
        ELSE black_hit(word_chars, guess_chars, used_in_word, i, j + 1)
    ELSE black_hit(word_chars, guess_chars, used_in_word, i, j + 1)

RECURSIVE blacks_from(_, _, _, _, _)
blacks_from(word_chars, guess_chars, pattern_chars, used_in_word, i) ==
    IF i > Len(word_chars) THEN Returned(TRUE, used_in_word)
    ELSE IF i > Len(pattern_chars) THEN Panicked(used_in_word)
    ELSE IF eq_ignore_ascii_case(pattern_chars[i], "b") THEN
        LET h == black_hit(word_chars, guess_chars, used_in_word, i, 1)
        IN  IF h = "panic" THEN Panicked(used_in_word)
            ELSE IF h = "hit" THEN Returned(FALSE, used_in_word)
            ELSE blacks_from(word_chars, guess_chars, pattern_chars,
                             used_in_word, i + 1)
    ELSE blacks_from(word_chars, guess_chars, pattern_chars, used_in_word, i + 1)

\* The Black pass that reads Black as "the letter is absent from the word":
\* it looks at every position of the word, claimed or not.
RECURSIVE black_absent_hit(_, _, _, _)
black_absent_hit(word_chars, guess_chars, i, j) ==
    IF j > Len(word_chars) THEN "clear"
    ELSE IF i > Len(guess_chars) THEN "panic"
    ELSE IF word_chars[j] = guess_chars[i] THEN "hit"
    ELSE black_absent_hit(word_chars, guess_chars, i, j + 1)

RECURSIVE blacks_absent_from(_, _, _, _, _)
blacks_absent_from(word_chars, guess_chars, pattern_chars, used_in_word, i) ==
    IF i > Len(word_chars) THEN Returned(TRUE, used_in_word)
    ELSE IF i > Len(pattern_chars) THEN Panicked(used_in_word)
    ELSE IF eq_ignore_ascii_case(pattern_chars[i], "b") THEN
        LET h == black_absent_hit(word_chars, guess_chars, i, 1)
        IN  IF h = "panic" THEN Panicked(used_in_word)
            ELSE IF h = "hit" THEN Returned(FALSE, used_in_word)
            ELSE blacks_absent_from(word_chars, guess_chars, pattern_chars,
                                    used_in_word, i + 1)
    ELSE blacks_absent_from(word_chars, guess_chars, pattern_chars, used_in_word, i + 1)

check_blacks_absent(word_chars, guess_chars, pattern_chars, used_in_word) ==
    blacks_absent_from(word_chars, guess_chars, pattern_chars, used_in_word, 1)

\* The Black pass that compares only the guessed position itself.
RECURSIVE blacks_samepos_from(_, _, _, _, _)
blacks_samepos_from(word_chars, guess_chars, pattern_chars, used_in_word, i) ==
    IF i > Len(word_chars) THEN Returned(TRUE, used_in_word)
    ELSE IF i > Len(pattern_chars) THEN Panicked(used_in_word)
    ELSE IF eq_ignore_ascii_case(pattern_chars[i], "b") THEN
        IF i > Len(guess_chars) THEN Panicked(used_in_word)
        ELSE IF word_chars[i] = guess_chars[i] THEN Returned(FALSE, used_in_word)
        ELSE blacks_samepos_from(word_chars, guess_chars, pattern_chars,
                                 used_in_word, i + 1)
    ELSE blacks_samepos_from(word_chars, guess_chars, pattern_chars, used_in_word, i + 1)

check_blacks_samepos(word_chars, guess_chars, pattern_chars, used_in_word) ==
    blacks_samepos_from(word_chars, guess_chars, pattern_chars, used_in_word, 1)

\* The Black pass with a final else: every symbol that is not Green or
\* Yellow is read as Black.
RECURSIVE blacks_else_from(_, _, _, _, _)
blacks_else_from(word_chars, guess_chars, pattern_chars, used_in_word, i) ==
    IF i > Len(word_chars) THEN Returned(TRUE, used_in_word)
    ELSE IF i > Len(pattern_chars) THEN Panicked(used_in_word)
    ELSE IF ~eq_ignore_ascii_case(pattern_chars[i], "g")
            /\ ~eq_ignore_ascii_case(pattern_chars[i], "y") THEN
        LET h == black_hit(word_chars, guess_chars, used_in_word, i, 1)
        IN  IF h = "panic" THEN Panicked(used_in_word)
            ELSE IF h = "hit" THEN Returned(FALSE, used_in_word)
            ELSE blacks_else_from(word_chars, guess_chars, pattern_chars,
                                  used_in_word, i + 1)
    ELSE blacks_else_from(word_chars, guess_chars, pattern_chars, used_in_word, i + 1)

check_blacks_else(word_chars, guess_chars, pattern_chars, used_in_word) ==
    blacks_else_from(word_chars, guess_chars, pattern_chars, used_in_word, 1)

check_blacks(word_chars, guess_chars, pattern_chars, used_in_word) ==
    blacks_from(word_chars, guess_chars, pattern_chars, used_in_word, 1)

(***************************************************************************)
(* matches_pattern.  The result is [panic, ret]: the boolean returned, or  *)
(* a panic raised by one of the passes.                                    *)
(***************************************************************************)
Outcome(r) == [panic |-> r.panic, ret |-> r.ret]

run_passes(word_chars, guess_chars, pattern_chars) ==
    LET used_in_word == [k \in 1..Len(word_chars) |-> FALSE]
        gr == check_greens(word_chars, guess_chars, pattern_chars, used_in_word)
        ye == check_yellows(word_chars, guess_chars, pattern_chars, gr.used)
        bl == check_blacks(word_chars, guess_chars, pattern_chars, ye.used)
    IN  IF gr.panic \/ ~gr.ret THEN Outcome(gr)
        ELSE IF ye.panic \/ ~ye.ret THEN Outcome(ye)
        ELSE Outcome(bl)

\* matches_pattern without the check of the lengths.
matches_pattern_nolen(word, guess, pattern) ==
    run_passes(word, guess, pattern)

matches_pattern(word, guess, pattern) ==
    IF Len(word) # Len(guess) \/ Len(guess) # Len(pattern)
    THEN [panic |-> FALSE, ret |-> FALSE]
    ELSE run_passes(word, guess, pattern)

(***************************************************************************)
(* State.  word, guess, pattern and result are one call of                 *)
(* matches_pattern; dictionary, filtered and history are the interactive   *)
(* session of main (history is the sequence of observations entered since  *)
(* the last 'new' and loaded is the dictionary as load_dictionary returned *)
(* it, both kept for the properties only) and output is what the session   *)
(* printed last.                                                           *)
(***************************************************************************)
VARIABLES pc, word, guess, pattern, result, dictionary, filtered, history, output,
          loaded

vars ==
    <<pc, word, guess, pattern, result, dictionary, filtered, history, output, loaded>>

NoResult == [panic |-> FALSE, ret |-> FALSE]

NoOutput == [kind |-> "none", count |-> 0, words |-> <<>>]

NoSession ==
    /\ dictionary = <<>>
    /\ loaded = <<>>
    /\ filtered = <<>>
    /\ history = <<>>
    /\ output = NoOutput

\* One call: the arguments are bound, the call has not run yet.
InitCall(words, guesses, patterns) ==
    /\ pc = "call"
    /\ word \in words
    /\ guess \in guesses
    /\ pattern \in patterns
    /\ result = NoResult
    /\ NoSession

\* Arguments of any lengths up to MaxLen.
InitLen ==
    InitCall(SeqsUpTo(LettersShort, MaxLen), SeqsUpTo(LettersShort, MaxLen),
             SeqsUpTo(Symbols, MaxLen))

\* Arguments of one length, patterns over g, y, b.
InitEq ==
    InitCall(SeqsOfLen(Letters, WordLen), SeqsOfLen(Letters, WordLen),
             SeqsOfLen(Symbols, WordLen))

\* Arguments of one length, letters of both cases, patterns of any symbols.
InitSym ==
    InitCall(SeqsOfLen(LettersCased, SymLen), SeqsOfLen(LettersCased, SymLen),
             SeqsOfLen(SymbolsAny, SymLen))

\* The worked examples on "abcde".
abcde == <<"a", "b", "c", "d", "e">>

edcba == <<"e", "d", "c", "b", "a">>

InitEx ==
    InitCall({abcde}, {abcde, edcba}, SeqsOfLen(Symbols, Len(abcde)))

\* The call runs to its return (or to a panic).
Evaluate ==
    /\ pc = "call"
    /\ result' = matches_pattern(word, guess, pattern)
    /\ pc' = "returned"
    /\ UNCHANGED <<word, guess, pattern, dictionary, filtered, history, output, loaded>>

NextCall == Evaluate

SpecLen == InitLen /\ [][NextCall]_vars

SpecEq == InitEq /\ [][NextCall]_vars

SpecSym == InitSym /\ [][NextCall]_vars

SpecEx == InitEx /\ [][NextCall]_vars

\* The feedback Wordle gives for guess g against the word w of the same
\* length: Green where the letters agree; at the other positions, from left
\* to right, Yellow while w has an occurrence of the letter that no Green
\* and no earlier Yellow has matched; otherwise Black.
Feedback(w, g) ==
    [i \in 1..Len(g) |->
        IF w[i] = g[i] THEN "g"
        ELSE LET avail == Cardinality({j \in 1..Len(w) : w[j] = g[i] /\ w[j] # g[j]})
                 before == Cardinality({k \in 1..(i - 1) : g[k] = g[i] /\ w[k] # g[k]})
             IN  IF before < avail THEN "y" ELSE "b"]

(***************************************************************************)
(* The interactive session of main.  A line is what read_line returns:     *)
(* the text with its newline, or nothing at the end of the input.          *)
(***************************************************************************)
Whitespace == {" ", "\t", "\r", "\n"}

RECURSIVE trim_start(_)
trim_start(s) ==
    IF s = <<>> THEN s
    ELSE IF Head(s) \in Whitespace THEN trim_start(Tail(s))
    ELSE s

RECURSIVE trim_end(_)
trim_end(s) ==
    IF s = <<>> THEN s
    ELSE IF s[Len(s)] \in Whitespace THEN trim_end(SubSeq(s, 1, Len(s) - 1))
    ELSE s

trim(s) == trim_end(trim_start(s))

\* str::eq_ignore_ascii_case
str_eq_ignore_ascii_case(s, t) ==
    /\ Len(s) = Len(t)
    /\ \A k \in 1..Len(s) : eq_ignore_ascii_case(s[k], t[k])

exit == <<"e", "x", "i", "t">>

show == <<"s", "h", "o", "w">>

new == <<"n", "e", "w">>

\* The dictionaries load_dictionary may return: the words of a file in the
\* order of its lines; the second holds a word twice and a longer word.
DictA == << <<"a", "b">>, <<"b", "a">>, <<"a", "a">>, <<"b", "b">> >>

DictB == << <<"b", "a">>, <<"a", "a", "b">>, <<"a", "b">>, <<"b", "a">> >>

Dictionaries == {DictA, DictB}

DictC ==
    << <<"a", "a", "b">>, <<"a", "b", "a">>, <<"b", "c", "a">>, <<"c", "a", "b">>,
       <<"b", "b", "b">>, <<"a", "b", "c">> >>

\* What the user types.  In a free session (word is empty): guesses of the
\* length of the dictionary's words and one longer guess, and any pattern
\* over g, y, b.  In a game against the secret word: guesses of the length
\* of the secret, and for each the feedback Wordle gives for it.
SessionGuesses ==
    IF word = <<>>
    THEN SeqsOfLen(LettersShort, Len(DictA[1])) \cup {<<"a", "a", "b">>}
    ELSE SeqsOfLen(Letters, Len(word))

SessionPatterns ==
    IF word = <<>>
    THEN SeqsOfLen(Symbols, Len(DictA[1]))
    ELSE {Feedback(word, guess)}

CommandTexts == {exit, show, new, <<"E", "x", "i", "t">>, <<"S", "H", "O", "W">>,
                 <<"N", "e", "w">>}

Typed(texts) == {t \o <<"\n">> : t \in texts}

Padded(texts) == {<<" ">> \o t \o <<" ", "\r", "\n">> : t \in texts}

GuessLines ==
    {<<>>, <<"\n">>} \cup Typed(CommandTexts \cup SessionGuesses)
        \cup Padded(CommandTexts)

PatternLines == {<<>>, <<"\n">>} \cup Typed(SessionPatterns)

InitSession ==
    /\ pc = "read_guess"
    /\ dictionary \in Dictionaries
    /\ loaded = dictionary
    /\ filtered = dictionary
    /\ history = <<>>
    /\ output = NoOutput
    /\ word = <<>>
    /\ guess = <<>>
    /\ pattern = <<>>
    /\ result = NoResult

\* A game against a secret word of the dictionary.
InitGame ==
    /\ pc = "read_guess"
    /\ dictionary = DictC
    /\ loaded = dictionary
    /\ filtered = dictionary
    /\ history = <<>>
    /\ output = NoOutput
    /\ word \in {dictionary[k] : k \in 1..Len(dictionary)}
    /\ guess = <<>>
    /\ pattern = <<>>
    /\ result = NoResult

IsExit(input) == str_eq_ignore_ascii_case(input, exit) \/ input = <<>>

IsShow(input) == ~IsExit(input) /\ str_eq_ignore_ascii_case(input, show)

IsNew(input) ==
    ~IsExit(input) /\ ~IsShow(input) /\ str_eq_ignore_ascii_case(input, new)

IsGuess(input) == ~IsExit(input) /\ ~IsShow(input) /\ ~IsNew(input)

\* 'exit', an empty line or the end of the input: the loop breaks.
Exit ==
    /\ pc = "read_guess"
    /\ {line \in GuessLines : IsExit(trim(line))} # {}
    /\ pc' = "exited"
    /\ UNCHANGED <<word, guess, pattern, result, dictionary, loaded, filtered, history,
                   output>>

\* 'show': the count and the words of the candidate list are printed.
Show ==
    /\ pc = "read_guess"
    /\ {line \in GuessLines : IsShow(trim(line))} # {}
    /\ output' = [kind |-> "show", count |-> Len(filtered), words |-> filtered]
    /\ UNCHANGED <<pc, word, guess, pattern, result, dictionary, loaded, filtered, history>>

\* 'new': the candidate list is the dictionary again.
New ==
    /\ pc = "read_guess"
    /\ {line \in GuessLines : IsNew(trim(line))} # {}
    /\ filtered' = dictionary
    /\ history' = <<>>
    /\ output' = [kind |-> "reset", count |-> Len(dictionary), words |-> <<>>]
    /\ UNCHANGED <<pc, word, guess, pattern, result, dictionary, loaded>>

\* Any other line is the guess; the pattern is asked for next.
EnterGuess ==
    /\ pc = "read_guess"
    /\ Len(history) < MaxObs
    /\ \E line \in GuessLines :
         /\ IsGuess(trim(line))
         /\ guess' = trim(line)
    /\ pc' = "read_pattern"
    /\ UNCHANGED <<word, pattern, result, dictionary, loaded, filtered, history, output>>

\* The filter with the guess and the pattern in each other's place.
FilterSwapped(candidates, g, p) ==
    SelectSeq(candidates, LAMBDA w : matches_pattern(w, p, g).ret)

\* The filter of lines 163-166: the candidates that match, in their order.
Filter(candidates, g, p) ==
    SelectSeq(candidates, LAMBDA w : matches_pattern(w, g, p).ret)

\* A pattern: the candidate list is filtered and its count printed.  A
\* panic inside matches_pattern would end the program.
EnterPattern ==
    /\ pc = "read_pattern"
    /\ \E line \in PatternLines :
         LET p == trim(line)
         IN  /\ p # <<>>
             /\ IF \E k \in 1..Len(filtered) : matches_pattern(filtered[k], guess, p).panic
                THEN /\ pc' = "panicked"
                     /\ UNCHANGED <<filtered, history, output>>
                ELSE /\ pc' = "read_guess"
                     /\ filtered' = Filter(filtered, guess, p)
                     /\ history' = Append(history, [guess |-> guess, pattern |-> p])
                     /\ output' = [kind |-> "count", count |-> Len(filtered'),
                                   words |-> <<>>]
    /\ guess' = <<>>
    /\ UNCHANGED <<word, pattern, result, dictionary, loaded>>

\* An empty pattern line (or the end of the input): the loop breaks.
PatternExit ==
    /\ pc = "read_pattern"
    /\ {line \in PatternLines : trim(line) = <<>>} # {}
    /\ pc' = "exited"
    /\ guess' = <<>>
    /\ UNCHANGED <<word, pattern, result, dictionary, loaded, filtered, history, output>>

NextSession ==
    \/ Exit
    \/ Show
    \/ New
    \/ EnterGuess
    \/ EnterPattern
    \/ PatternExit

SpecSession == InitSession /\ [][NextSession]_vars

SpecGame == InitGame /\ [][NextSession]_vars

(***************************************************************************)
(* Vocabulary of the properties.                                           *)
(***************************************************************************)
Returns == pc = "returned"

Pos == 1..Len(word)

EqualLengths == Len(word) = Len(guess) /\ Len(guess) = Len(pattern)

IsGreen(s) == s \in {"g", "G"}

IsYellow(s) == s \in {"y", "Y"}

IsBlack(s) == s \in {"b", "B"}

\* The usage marks as the Green pass, and then the Yellow pass, leave them.
AfterGreens ==
    check_greens(word, guess, pattern, [k \in Pos |-> FALSE])

AfterYellows ==
    check_yellows(word, guess, pattern, AfterGreens.used)

(***************************************************************************)
(* C2: when the lengths of word, guess and pattern are not all equal,      *)
(* matches_pattern returns false and raises no error; no call indexes      *)
(* guess, pattern or the usage marks out of bounds.                        *)
(***************************************************************************)
C2_LengthMismatchIsFalse ==
    Returns =>
        /\ ~result.panic
        /\ ~EqualLengths => result = [panic |-> FALSE, ret |-> FALSE]

\* A pattern shorter than the word and the guess, which a pass would index
\* out of bounds; the call returned false.
C2_Witness ==
    /\ Returns
    /\ Len(word) = Len(guess)
    /\ Len(pattern) < Len(word)
    /\ result = [panic |-> FALSE, ret |-> FALSE]

(***************************************************************************)
(* C3: for word, guess and pattern over g, y, b of one length, if          *)
(* matches_pattern returns true then the pattern is the feedback Wordle    *)
(* gives for the guess against the word.                                   *)
(***************************************************************************)
C3_AcceptsOnlyFeedback ==
    (Returns /\ result.ret) => pattern = Feedback(word, guess)

(***************************************************************************)
(* C4: matches_pattern("abcde", "edcba", "bbgbb") returns true.            *)
(***************************************************************************)
C4_ExampleIsTrue ==
    (Returns /\ word = abcde /\ guess = edcba
        /\ pattern = <<"b", "b", "g", "b", "b">>) => result.ret

\* C4 as amended: for the word "abcde" and the guess "edcba" the call
\* returns true for the pattern "yygyy" and for no other pattern over
\* g, y, b; for "bbgbb" it returns false.
C4_ExampleAmended ==
    (Returns /\ word = abcde /\ guess = edcba) =>
        /\ ~result.panic
        /\ result.ret <=> pattern = <<"y", "y", "g", "y", "y">>

C4_Witness ==
    /\ Returns
    /\ word = abcde
    /\ guess = edcba
    /\ pattern = <<"b", "b", "g", "b", "b">>
    /\ ~result.ret

(***************************************************************************)
(* C5: for inputs of one length that pass the Green and the Yellow pass,   *)
(* matches_pattern returns true exactly when, for every Black position i,  *)
(* no word position left unclaimed by those passes holds guess[i].         *)
(***************************************************************************)
C5_BlackIsNoUnclaimed ==
    (Returns /\ EqualLengths /\ AfterGreens.ret /\ AfterYellows.ret) =>
        (result.ret <=>
            \A i \in Pos : IsBlack(pattern[i]) =>
                \A j \in Pos : ~AfterYellows.used[j] => word[j] # guess[i])

\* A Black on a letter that occurs in the word, all of its occurrences
\* claimed: the call returned true.
C5_Witness ==
    /\ Returns
    /\ result.ret
    /\ \E i \in Pos : IsBlack(pattern[i]) /\ \E j \in Pos : word[j] = guess[i]

(***************************************************************************)
(* C8: when matches_pattern returns true, the Green and Yellow marks have  *)
(* claimed as many distinct word positions as there are marks, and for     *)
(* every letter c the number of Green or Yellow marks on c in the guess is *)
(* at most the number of occurrences of c in the word.                     *)
(***************************************************************************)
C8_PerLetterCount ==
    (Returns /\ result.ret) =>
        /\ Cardinality({j \in Pos : AfterYellows.used[j]})
             = Cardinality({i \in Pos : IsGreen(pattern[i]) \/ IsYellow(pattern[i])})
        /\ \A c \in Letters :
             Cardinality({i \in Pos : guess[i] = c
                            /\ (IsGreen(pattern[i]) \/ IsYellow(pattern[i]))})
               <= Cardinality({j \in Pos : word[j] = c})

\* Two marks on one letter, one of them Yellow, accepted.
C8_Witness ==
    /\ Returns
    /\ result.ret
    /\ \E i, k \in Pos :
         /\ i # k
         /\ guess[i] = guess[k]
         /\ IsYellow(pattern[i])
         /\ IsGreen(pattern[k]) \/ IsYellow(pattern[k])

(***************************************************************************)
(* C6: a pattern symbol outside g, y, b (in either case) at position i     *)
(* imposes no constraint: the result does not change when guess[i] is      *)
(* replaced by any other letter, and a pattern made only of such symbols   *)
(* makes matches_pattern return true.                                      *)
(***************************************************************************)
IsOther(s) == ~IsGreen(s) /\ ~IsYellow(s) /\ ~IsBlack(s)

\* C6: a symbol other than g, y, b constrains nothing.
C6_OtherSymbolIsNoConstraint ==
    (Returns /\ EqualLengths) =>
        /\ \A i \in Pos : IsOther(pattern[i]) =>
             \A c \in LettersCased :
                matches_pattern(word, [guess EXCEPT ![i] = c], pattern) = result
        /\ (\A i \in Pos : IsOther(pattern[i])) => result.ret

\* A pattern of other symbols only, a guess that shares no position with
\* the word and holds one of its letters: the call returned true.
C6_Witness ==
    /\ Returns
    /\ result.ret
    /\ \A i \in Pos : IsOther(pattern[i]) /\ word[i] # guess[i]
    /\ \E i, j \in Pos : word[j] = guess[i]

(***************************************************************************)
(* C7: the result is the same when any subset of the pattern's g, y, b is  *)
(* replaced by G, Y, B; a word letter and a guess letter that differ only  *)
(* in case are different letters to all three passes: a Green on such a    *)
(* pair is rejected, and the result is what it is when the capital letter  *)
(* is replaced throughout by a letter that occurs nowhere else.            *)
(***************************************************************************)
Capitalised(p, S) ==
    [i \in 1..Len(p) |->
        IF i \in S /\ p[i] \in {"g", "y", "b"} THEN to_ascii_uppercase(p[i]) ELSE p[i]]

Uncased(w) == [i \in 1..Len(w) |-> IF w[i] = "A" THEN "z" ELSE w[i]]

\* C7: the symbols are compared without case, the letters with it.
C7_SymbolsUncasedLettersCased ==
    (Returns /\ EqualLengths) =>
        /\ \A S \in SUBSET Pos :
             matches_pattern(word, guess, Capitalised(pattern, S)) = result
        /\ \A i \in Pos :
             (IsGreen(pattern[i]) /\ word[i] # guess[i]) => ~result.ret
        /\ matches_pattern(Uncased(word), Uncased(guess), pattern) = result

\* Capital symbols in the pattern and an "a" of the word against an "A" of
\* the guess, marked Yellow and accepted for the "A" elsewhere in the word.
C7_Witness ==
    /\ Returns
    /\ result.ret
    /\ \E i \in Pos : pattern[i] = "Y" /\ word[i] = "a" /\ guess[i] = "A"

(***************************************************************************)
(* C10: matches_pattern returns what the algorithm returns when each       *)
(* Yellow position i claims any unused word position j # i that holds      *)
(* guess[i], whichever it picks; and what it returns when the exclusion    *)
(* j # i is dropped.                                                       *)
(***************************************************************************)
\* The outcomes the Yellow pass may end with when it claims any candidate
\* position (excl: with the exclusion j # i).
Candidates(used, i, excl) ==
    {j \in Pos : ~used[j] /\ word[j] = guess[i] /\ (excl => j # i)}

Claimed(used, j) == [k \in DOMAIN used |-> k = j \/ used[k]]

RECURSIVE AnyYellows(_, _, _)
AnyYellows(used, i, excl) ==
    IF i > Len(word) THEN {Returned(TRUE, used)}
    ELSE IF IsYellow(pattern[i]) THEN
        IF word[i] = guess[i] \/ Candidates(used, i, excl) = {}
        THEN {Returned(FALSE, used)}
        ELSE UNION {AnyYellows(Claimed(used, j), i + 1, excl) :
                        j \in Candidates(used, i, excl)}
    ELSE AnyYellows(used, i + 1, excl)

\* The results of the variant algorithm, one for each way of claiming.
AnyResults(excl) ==
    IF ~AfterGreens.ret THEN {FALSE}
    ELSE {y.ret /\ check_blacks(word, guess, pattern, y.used).ret :
            y \in AnyYellows(AfterGreens.used, 1, excl)}

\* C10: every way of claiming gives the result of matches_pattern.
C10_AnyOccurrence ==
    (Returns /\ EqualLengths) =>
        /\ AnyResults(TRUE) = {result.ret}
        /\ AnyResults(FALSE) = {result.ret}

\* An accepted pattern whose Yellow marks can be claimed in two ways.
C10_Witness ==
    /\ Returns
    /\ result.ret
    /\ Cardinality(AnyYellows(AfterGreens.used, 1, TRUE)) >= 2

(***************************************************************************)
(* C1: in the interactive session the candidate list is the subsequence of *)
(* the loaded dictionary of exactly the words that match every observation *)
(* entered since the last 'new' (or the start): a word is in the list if   *)
(* and only if it matches them all; 'show' prints the list and leaves it   *)
(* as it is, and the dictionary is the one that was loaded.                *)
(***************************************************************************)
MatchesAll(w, h) ==
    \A k \in 1..Len(h) : matches_pattern(w, h[k].guess, h[k].pattern).ret

Survivors(h) == SelectSeq(loaded, LAMBDA w : MatchesAll(w, h))

\* C1: the candidate list is the loaded dictionary's words that match every
\* observation since the last 'new', in the dictionary's order.
C1_CandidatesAreSurvivors ==
    /\ pc # "panicked"
    /\ dictionary = loaded
    /\ filtered = Survivors(history)
    /\ \A k \in 1..Len(loaded) :
         MatchesAll(loaded[k], history)
            <=> \E n \in 1..Len(filtered) : filtered[n] = loaded[k]
    /\ output.kind = "show" => output.words = filtered

\* Two observations in, some words dropped and some left, the list shown.
C1_Witness ==
    /\ pc = "read_guess"
    /\ Len(history) = 2
    /\ filtered # <<>>
    /\ Len(filtered) < Len(dictionary)
    /\ output.kind = "show"

(***************************************************************************)
(* C9: for a word and a guess of one length, matches_pattern returns true  *)
(* for the feedback Wordle gives for the guess against the word; so in a   *)
(* session where every pattern entered is that feedback for one secret     *)
(* word of the dictionary, the secret stays in the candidate list.         *)
(***************************************************************************)
IsFeedback(h) ==
    \A k \in 1..Len(h) :
        /\ Len(h[k].guess) = Len(word)
        /\ h[k].pattern = Feedback(word, h[k].guess)

\* C9: the feedback for the secret is accepted and the secret is kept.
C9_AnswerIsKept ==
    /\ pc = "read_pattern" =>
         matches_pattern(word, guess, Feedback(word, guess))
            = [panic |-> FALSE, ret |-> TRUE]
    /\ IsFeedback(history) =>
         /\ pc # "panicked"
         /\ \E k \in 1..Len(filtered) : filtered[k] = word

\* Two observations in, words dropped, the secret still listed.
C9_Witness ==
    /\ pc = "read_guess"
    /\ Len(history) = 2
    /\ IsFeedback(history)
    /\ Len(filtered) < Len(dictionary)
    /\ \E k \in 1..Len(filtered) : filtered[k] = word

====
